---- MODULE Spec2Model ----
(***************************************************************************)
(* Model of the azure_blob source's streaming core                         *)
(* (src/src/sources/azure_blob/mod.rs): AzureBlobStreamer::run_streaming   *)
(* and AzureBlobStreamer::process_blob_pack, together with the             *)
(* collaborators they drive: the upstream BlobPack stream, the row stream  *)
(* of one BlobPack, the decoder, the SourceSender (output sink), the       *)
(* BatchNotifier / receiver pair and the shutdown signal.                  *)
(***************************************************************************)
EXTENDS Integers, Sequences, FiniteSets, TLC

\* Bounds of the model.
MaxBatches == 2
MaxRows == 2

Batches == 1..MaxBatches

\* The shapes a row can have, named by what the decoder makes of it.
RowKinds == {"malformed", "log", "metric", "log_metric_log"}

\* Every row sequence of at most n rows.
RECURSIVE RowSeqs(_)
RowSeqs(n) ==
    IF n = 0 THEN {<<>>}
    ELSE LET shorter == RowSeqs(n - 1)
         IN shorter \cup {Append(s, r) : s \in {t \in shorter : Len(t) = n - 1},
                                         r \in RowKinds}

VARIABLES
    acknowledge,   \* AzureBlobStreamer.acknowledge
    shutdown,      \* the ShutdownSignal has fired
    avail,         \* blob_stream.next() is ready with a BlobPack
    ended,         \* blob_stream has closed
    sinkClosed,    \* the SourceSender's channel is closed
    lpc,           \* run_streaming: "select" | "processing" | "terminated"
    ret,           \* what run_streaming returned: "none" | "Ok" | "Err"
    ppc,           \* process_blob_pack: "idle" | "poll" | "yielded" | "await" | "handler" | "done"
    cur,           \* number of BlobPacks pulled so far; the one in flight
    rows,          \* row_stream of the BlobPack in flight
    pos,           \* number of rows pulled from row_stream
    items,         \* positions, in the current row's decoded events, of the
                   \* events not yet visited, in visiting order
    pending,       \* <<row, position>> of the event yielded and not yet taken by
                   \* the sink, or <<>>
    fwd,           \* the <<row, position>> of every event the sink took, in order
    handle,        \* the generator still owns `batch`
    receiver,      \* process_blob_pack holds a BatchStatusReceiver
    nstatus,       \* BatchNotifier's aggregate status
    inflight,      \* events of the BlobPack in flight accepted by the sink and unresolved
    yielded,       \* events yielded by output_stream, this BlobPack
    sent,          \* events accepted by the sink, this BlobPack
    calls,         \* per BlobPack: invocations of success_handler
    sendResult,    \* per BlobPack: "none" | "Ok" | "Err" of send_event_stream
    received,      \* per BlobPack: "none" or the BatchStatus the receiver resolved to
    outcome,       \* per BlobPack: how process_blob_pack ended
    diag,          \* internal events emitted for the BlobPack in flight
    firedIn,       \* history: -1 before shutdown fires, then the BlobPack that was
                   \* in flight when it fired (0: none was)
    firedPos       \* history: the rows of that BlobPack pulled when it fired

vars == <<acknowledge, shutdown, avail, ended, sinkClosed, lpc, ret, ppc, cur, rows,
          pos, items, pending, fwd, handle, receiver, nstatus, inflight, yielded, sent, calls,
          sendResult, received, outcome, diag, firedIn,
          firedPos>>

envVars == <<shutdown, avail, ended, sinkClosed>>
loopVars == <<lpc, ret, cur>>
batchVars == <<rows, pos, items, pending, fwd, handle, receiver, nstatus, inflight,
               yielded, sent>>
histVars == <<calls, sendResult, received, outcome>>
logVars == <<diag, firedIn, firedPos>>

----------------------------------------------------------------------------
(* Collaborators *)

\* decoder.deserializer_parse(row): an error, or the events of the row in order.
DeserializerParse(row) ==
    CASE row = "malformed"      -> [ok |-> FALSE, events |-> <<>>]
      [] row = "log"            -> [ok |-> TRUE, events |-> <<"Log">>]
      [] row = "metric"         -> [ok |-> TRUE, events |-> <<"Metric">>]
      [] row = "log_metric_log" -> [ok |-> TRUE, events |-> <<"Log", "Metric", "Log">>]

\* The decoder reports a failed parse itself, once per failed call.
DecodeErrorEvents(parsed) == IF parsed.ok THEN 0 ELSE 1

\* A row that decodes to exactly one log event.
WellFormed(row) == DeserializerParse(row) = [ok |-> TRUE, events |-> <<"Log">>]

\* BatchNotifier::maybe_new_with_receiver(enabled): whether a notifier and a
\* receiver are made.
MaybeNewWithReceiver(enabled) == enabled

\* A fresh notifier reports Delivered until an event says otherwise.
InitialBatchStatus == "Delivered"

EventStatuses == {"Delivered", "Errored", "Rejected", "Dropped"}

\* BatchStatus::update: Dropped and Delivered change nothing, Rejected
\* overrides everything, Errored overrides Delivered.
UpdateStatus(status, ev) ==
    IF ev \in {"Dropped", "Delivered"} THEN status
    ELSE IF status = "Rejected" \/ ev = "Rejected" THEN "Rejected"
    ELSE "Errored"

\* The receiver resolves once every owner of the notifier is gone: the
\* generator's handle and every event that carries it.
ReceiverReady == ~handle /\ inflight = 0

----------------------------------------------------------------------------
(* Pure parts of the source *)

\* Variant: every decoded event is yielded, whatever its kind.
IsLogAny(event) == TRUE

\* match event { Event::Log(..) => yield, _ => emit!(InvalidRowEventType) }
IsLog(event) == event = "Log"

\* Variant: the row loop also ends once shutdown has fired.
RowStreamDoneOrShutdown(sd, p, rs) == p >= Len(rs) \/ sd

\* while let Some(row) = row_stream.next().await
RowStreamDone(sd, p, rs) == p >= Len(rs)

\* Variant: a row that fails to decode is forwarded as one log event.
RowEventsForwardMalformed(parsed) ==
    IF parsed.ok THEN parsed.events ELSE <<"Log">>

\* if deser_result.is_err() { continue; } let (events, _) = deser_result.unwrap();
\* the events the generator goes on to visit.
RowEvents(parsed) == IF parsed.ok THEN parsed.events ELSE <<>>

\* Variant: the events of a row are visited last to first.
VisitOrderReversed(events) == [i \in 1..Len(events) |-> Len(events) + 1 - i]

\* for mut event in events.into_iter(): the positions visited, in order.
VisitOrder(events) == [i \in 1..Len(events) |-> i]

\* Variant: yielded events are gathered without suspending the generator.
AfterYieldEager == "poll"

\* yield event: the generator is suspended until the stream is polled again.
AfterYield == "yielded"

\* Variant: the generator's `batch` outlives the stream.
KeepHandle(h) == h

\* drop(batch) at the end of the generator, drop(output_stream) after the send.
ReleaseHandle(h) == FALSE

\* Variant: after a failed send the stream is polled again.
AfterSendErrorRetry == "poll"

\* if let Err(..) = send_event_stream(..) { ..; return Ok(()); }
AfterSendError == "done"

\* output_stream.size_hint().0 of the async_stream generator.
SizeHintLower(unsent) == 0

\* Variant: a send failure is returned to the caller as an error.
SendFailReturnErr == "Err"

\* The value process_blob_pack returns on a send failure.
SendFailReturn == "Ok"

\* Variant: an Errored BlobPack is returned to the caller as an error.
ProcessReturnErrOnErrored(o) ==
    IF o = "send_failed" THEN SendFailReturn
    ELSE IF o = "errored" THEN "Err" ELSE "Ok"

\* What process_blob_pack returns for each way it can end.
ProcessReturn(o) == IF o = "send_failed" THEN SendFailReturn ELSE "Ok"

\* Variant: process_blob_pack is started but not awaited.
AwaitProcessSpawned == "select"

\* self.process_blob_pack(blob_pack).await : the loop is held until it returns.
AwaitProcess == "processing"

\* self.process_blob_pack(blob_pack).await? : Err leaves the loop.
AfterProcess(r) == IF r = "Ok" THEN "select" ELSE "terminated"

\* Variant: the select! has no shutdown branch.
ShutdownBranchMissing(sd) == FALSE

\* _ = self.shutdown.clone() => break : the branch is ready once shutdown fired.
ShutdownBranchReady(sd) == sd

\* Variant: the handler is invoked as soon as the send returns and again in
\* the Delivered arm.
HandlerCallsEager(hasReceiver, status) ==
    IF ~hasReceiver THEN 1
    ELSE IF status = "Delivered" THEN 2 ELSE 1

\* Variant: the Errored arm invokes the handler too.
HandlerCallsOnErrored(hasReceiver, status) ==
    IF ~hasReceiver THEN 1
    ELSE IF status \in {"Delivered", "Errored"} THEN 1 ELSE 0

\* Variant: the Delivered arm only emits its event.
HandlerCallsDeliveredSkips(hasReceiver, status) ==
    IF ~hasReceiver THEN 1 ELSE 0

\* Variant: Rejected is accepted without retrying.
HandlerCallsRejectedAccepted(hasReceiver, status) ==
    IF ~hasReceiver THEN 1
    ELSE IF status \in {"Delivered", "Rejected"} THEN 1 ELSE 0

\* Variant: without a receiver nothing is invoked.
HandlerCallsNoneSkips(hasReceiver, status) ==
    IF ~hasReceiver THEN 0
    ELSE IF status = "Delivered" THEN 1 ELSE 0

\* The number of times the match on `receiver` / on the BatchStatus invokes
\* success_handler.
HandlerCalls(hasReceiver, status) ==
    IF ~hasReceiver THEN 1
    ELSE CASE status = "Delivered" -> 1
           [] status = "Errored"   -> 0
           [] status = "Rejected"  -> 0

\* The internal event emitted by the BatchStatus arm.
StatusEvent(status) ==
    CASE status = "Delivered" -> "succeeded"
      [] status = "Errored"   -> "errored"
      [] status = "Rejected"  -> "rejected"

NoDiag == [bytes |-> 0, decodeErr |-> 0, events |-> 0, invalid |-> 0, closed |-> -1,
           status |-> "none"]

----------------------------------------------------------------------------
Init ==
    /\ acknowledge \in BOOLEAN
    /\ shutdown = FALSE
    /\ avail = FALSE
    /\ ended = FALSE
    /\ sinkClosed = FALSE
    /\ lpc = "select"
    /\ ret = "none"
    /\ ppc = "idle"
    /\ cur = 0
    /\ rows = <<>>
    /\ pos = 0
    /\ items = <<>>
    /\ pending = <<>>
    /\ fwd = <<>>
    /\ handle = FALSE
    /\ receiver = FALSE
    /\ nstatus = InitialBatchStatus
    /\ inflight = 0
    /\ yielded = 0
    /\ sent = 0
    /\ calls = [b \in Batches |-> 0]
    /\ sendResult = [b \in Batches |-> "none"]
    /\ received = [b \in Batches |-> "none"]
    /\ outcome = [b \in Batches |-> "none"]
    /\ diag = NoDiag
    /\ firedIn = -1
    /\ firedPos = -1

----------------------------------------------------------------------------
(* Environment *)

\* The upstream has a BlobPack ready.
UpstreamYield ==
    /\ ~avail /\ ~ended
    /\ cur < MaxBatches
    /\ avail' = TRUE
    /\ UNCHANGED <<acknowledge, shutdown, ended, sinkClosed, logVars>>
    /\ UNCHANGED <<loopVars, ppc, batchVars, histVars>>

\* The upstream closes.
UpstreamEnd ==
    /\ ~avail /\ ~ended
    /\ ended' = TRUE
    /\ UNCHANGED <<acknowledge, shutdown, avail, sinkClosed, logVars>>
    /\ UNCHANGED <<loopVars, ppc, batchVars, histVars>>

\* The shutdown signal becomes ready, once, and stays ready.
ShutdownFire ==
    /\ ~shutdown
    /\ lpc # "terminated"
    /\ shutdown' = TRUE
    /\ firedIn' = IF lpc = "processing" THEN cur ELSE 0
    /\ firedPos' = IF lpc = "processing" THEN pos ELSE -1
    /\ UNCHANGED <<acknowledge, avail, ended, sinkClosed, diag>>
    /\ UNCHANGED <<loopVars, ppc, batchVars, histVars>>

\* The sink's channel closes.
SinkClose ==
    /\ ~sinkClosed
    /\ lpc # "terminated"
    /\ sinkClosed' = TRUE
    /\ UNCHANGED <<acknowledge, shutdown, avail, ended, logVars>>
    /\ UNCHANGED <<loopVars, ppc, batchVars, histVars>>

\* The downstream resolves one event of the BlobPack in flight; its finalizer
\* updates the notifier the event carries, if it carries one.
ResolveEvent ==
    /\ inflight > 0
    /\ \E st \in EventStatuses :
         nstatus' = IF acknowledge THEN UpdateStatus(nstatus, st) ELSE nstatus
    /\ inflight' = inflight - 1
    /\ UNCHANGED <<acknowledge, envVars, loopVars, ppc, logVars>>
    /\ UNCHANGED <<rows, pos, items, pending, fwd, handle, receiver, yielded, sent>>
    /\ UNCHANGED histVars

----------------------------------------------------------------------------
(* run_streaming *)

\* select!: blob_stream.next() is ready with Some(blob_pack); process_blob_pack
\* starts and runs up to its first suspension point.
SelectBatch ==
    /\ lpc = "select"
    /\ avail
    /\ \E rs \in RowSeqs(MaxRows) : rows' = rs
    /\ avail' = FALSE
    /\ cur' = cur + 1
    /\ lpc' = AwaitProcess
    /\ ppc' = "poll"
    /\ pos' = 0
    /\ items' = <<>>
    /\ pending' = <<>>
    /\ fwd' = <<>>
    /\ handle' = MaybeNewWithReceiver(acknowledge)
    /\ receiver' = MaybeNewWithReceiver(acknowledge)
    /\ nstatus' = InitialBatchStatus
    /\ inflight' = 0
    /\ yielded' = 0
    /\ sent' = 0
    /\ diag' = NoDiag
    /\ UNCHANGED <<acknowledge, shutdown, ended, sinkClosed, ret, histVars, firedIn, firedPos>>

\* select!: blob_stream.next() is ready with None.
SelectEnd ==
    /\ lpc = "select"
    /\ ~avail /\ ended
    /\ lpc' = "terminated"
    /\ ret' = "Ok"
    /\ UNCHANGED <<acknowledge, envVars, ppc, cur, batchVars, histVars, logVars>>

\* select!: the shutdown branch is ready.
SelectShutdown ==
    /\ lpc = "select"
    /\ ShutdownBranchReady(shutdown)
    /\ lpc' = "terminated"
    /\ ret' = "Ok"
    /\ UNCHANGED <<acknowledge, envVars, ppc, cur, batchVars, histVars, logVars>>

\* process_blob_pack has returned r, its locals are gone; the `?` and the
\* next turn of the loop.
LoopNext ==
    /\ lpc = "processing"
    /\ ppc = "done"
    /\ ppc' = "idle"
    /\ LET r == ProcessReturn(outcome[cur])
       IN /\ lpc' = AfterProcess(r)
          /\ ret' = IF r = "Ok" THEN ret ELSE "Err"
    /\ rows' = <<>>
    /\ pos' = 0
    /\ items' = <<>>
    /\ pending' = <<>>
    /\ fwd' = <<>>
    /\ handle' = FALSE
    /\ receiver' = FALSE
    /\ nstatus' = InitialBatchStatus
    /\ inflight' = 0
    /\ yielded' = 0
    /\ sent' = 0
    /\ diag' = NoDiag
    /\ UNCHANGED <<acknowledge, envVars, cur, histVars, firedIn, firedPos>>

----------------------------------------------------------------------------
(* process_blob_pack *)

\* The generator pulls the next row, reports its size and decodes it; a row
\* that fails to decode is skipped with `continue`.
PullRow ==
    /\ lpc = "processing" /\ ppc = "poll"
    /\ items = <<>>
    /\ ~RowStreamDone(shutdown, pos, rows)
    /\ pos' = pos + 1
    /\ LET parsed == DeserializerParse(rows[pos + 1])
       IN /\ diag' = [diag EXCEPT !.bytes = @ + 1,
                                  !.decodeErr = @ + DecodeErrorEvents(parsed)]
          /\ items' = VisitOrder(RowEvents(parsed))
    /\ UNCHANGED <<acknowledge, envVars, loopVars, ppc, histVars, firedIn, firedPos>>
    /\ UNCHANGED <<rows, pending, fwd, handle, receiver, nstatus, inflight, yielded, sent>>

\* The decoded events of the row pulled last.
CurrentEvents == RowEvents(DeserializerParse(rows[pos]))

\* The generator visits the next decoded event of the row: a log event is
\* stamped, counted and yielded, anything else is reported and dropped.
VisitEvent ==
    /\ lpc = "processing" /\ ppc = "poll"
    /\ items # <<>>
    /\ items' = Tail(items)
    /\ IF IsLog(CurrentEvents[Head(items)])
       THEN /\ diag' = [diag EXCEPT !.events = @ + 1]
            /\ yielded' = yielded + 1
            /\ pending' = <<pos, Head(items)>>
            /\ ppc' = AfterYield
            /\ UNCHANGED nstatus
       ELSE /\ diag' = [diag EXCEPT !.invalid = @ + 1]
            \* the event carries the notifier (line 265) and is dropped unresolved
            /\ nstatus' = IF handle THEN UpdateStatus(nstatus, "Dropped") ELSE nstatus
            /\ UNCHANGED <<yielded, pending, ppc>>
    /\ UNCHANGED <<acknowledge, envVars, loopVars, histVars, firedIn, firedPos>>
    /\ UNCHANGED <<rows, pos, fwd, handle, receiver, inflight, sent>>

\* The sink has capacity and takes the yielded event.
SinkAccept ==
    /\ lpc = "processing" /\ ppc = "yielded"
    /\ ~sinkClosed
    /\ sent' = sent + 1
    /\ inflight' = inflight + 1
    /\ fwd' = Append(fwd, pending)
    /\ pending' = <<>>
    /\ ppc' = "poll"
    /\ UNCHANGED <<acknowledge, envVars, loopVars, histVars, logVars>>
    /\ UNCHANGED <<rows, pos, items, handle, receiver, nstatus, yielded>>

\* send_event_stream returns Err: the error is logged, StreamClosedError is
\* emitted with the stream's size hint and process_blob_pack returns, dropping
\* output_stream (and with it `batch` and row_stream) and the receiver.
SinkFail ==
    /\ lpc = "processing" /\ ppc = "yielded"
    /\ sinkClosed
    /\ sendResult' = [sendResult EXCEPT ![cur] = "Err"]
    /\ diag' = [diag EXCEPT !.closed = SizeHintLower(yielded - sent)]
    /\ outcome' = [outcome EXCEPT ![cur] = "send_failed"]
    /\ handle' = FALSE
    /\ receiver' = FALSE
    /\ pending' = <<>>
    /\ ppc' = AfterSendError
    /\ UNCHANGED <<acknowledge, envVars, loopVars, calls, received, firedIn, firedPos>>
    /\ UNCHANGED <<rows, pos, items, fwd, nstatus, inflight, yielded, sent>>

\* row_stream is exhausted: the generator drops `batch` and ends,
\* send_event_stream returns Ok, output_stream is dropped and the match on
\* `receiver` either invokes success_handler or starts awaiting the receiver.
RowsEnd ==
    /\ lpc = "processing" /\ ppc = "poll"
    /\ items = <<>>
    /\ RowStreamDone(shutdown, pos, rows)
    /\ handle' = ReleaseHandle(handle)
    /\ sendResult' = [sendResult EXCEPT ![cur] = "Ok"]
    /\ IF receiver
       THEN /\ ppc' = "await"
            /\ UNCHANGED calls
       ELSE /\ calls' = [calls EXCEPT ![cur] = @ + HandlerCalls(FALSE, nstatus)]
            /\ ppc' = IF HandlerCalls(FALSE, nstatus) > 0 THEN "handler" ELSE "done"
    /\ UNCHANGED <<acknowledge, envVars, loopVars, received, outcome, logVars>>
    /\ UNCHANGED <<rows, pos, items, pending, fwd, receiver, nstatus, inflight, yielded,
                   sent>>

\* receiver.await resolves to the notifier's status; the match on it invokes
\* success_handler or emits the Errored / Rejected event and returns.
AckResolve ==
    /\ lpc = "processing" /\ ppc = "await"
    /\ ReceiverReady
    /\ received' = [received EXCEPT ![cur] = nstatus]
    /\ receiver' = FALSE
    /\ IF HandlerCalls(TRUE, nstatus) > 0
       THEN /\ calls' = [calls EXCEPT ![cur] = @ + HandlerCalls(TRUE, nstatus)]
            /\ ppc' = "handler"
            /\ UNCHANGED <<outcome, diag>>
       ELSE /\ diag' = [diag EXCEPT !.status = StatusEvent(nstatus)]
            /\ outcome' = [outcome EXCEPT ![cur] = StatusEvent(nstatus)]
            /\ ppc' = "done"
            /\ UNCHANGED calls
    /\ UNCHANGED <<acknowledge, envVars, loopVars, sendResult, firedIn, firedPos>>
    /\ UNCHANGED <<rows, pos, items, pending, fwd, handle, nstatus, inflight, yielded,
                   sent>>

\* success_handler's future completes; in the Delivered arm
\* QueueMessageProcessingSucceeded is emitted; process_blob_pack returns Ok.
HandlerReturn ==
    /\ lpc = "processing" /\ ppc = "handler"
    /\ diag' = IF received[cur] # "none"
               THEN [diag EXCEPT !.status = StatusEvent(received[cur])]
               ELSE diag
    /\ outcome' = [outcome EXCEPT ![cur] = "completed"]
    /\ ppc' = "done"
    /\ UNCHANGED <<acknowledge, envVars, loopVars, batchVars, firedIn, firedPos>>
    /\ UNCHANGED <<calls, sendResult, received>>

----------------------------------------------------------------------------
Next ==
    \/ UpstreamYield
    \/ UpstreamEnd
    \/ ShutdownFire
    \/ SinkClose
    \/ ResolveEvent
    \/ SelectBatch
    \/ SelectEnd
    \/ SelectShutdown
    \/ LoopNext
    \/ PullRow
    \/ VisitEvent
    \/ SinkAccept
    \/ SinkFail
    \/ RowsEnd
    \/ AckResolve
    \/ HandlerReturn

Spec == Init /\ [][Next]_vars

\* The loop, the processor and the downstream keep taking the steps they can.
FairSpec ==
    /\ Spec
    /\ WF_vars(SelectBatch \/ SelectEnd \/ SelectShutdown \/ LoopNext)
    /\ WF_vars(PullRow \/ VisitEvent \/ SinkAccept \/ SinkFail \/ RowsEnd)
    /\ WF_vars(AckResolve \/ HandlerReturn)
    /\ WF_vars(ResolveEvent)

TypeOK ==
    /\ acknowledge \in BOOLEAN /\ shutdown \in BOOLEAN
    /\ avail \in BOOLEAN /\ ended \in BOOLEAN /\ sinkClosed \in BOOLEAN
    /\ lpc \in {"select", "processing", "terminated"}
    /\ ret \in {"none", "Ok", "Err"}
    /\ ppc \in {"idle", "poll", "yielded", "await", "handler", "done"}
    /\ cur \in 0..MaxBatches
    /\ pos \in 0..Len(rows)
    /\ handle \in BOOLEAN /\ receiver \in BOOLEAN
    /\ nstatus \in {"Delivered", "Errored", "Rejected"}
    /\ inflight \in 0..sent
    /\ sent \in 0..yielded
    /\ calls \in [Batches -> Nat]
    /\ sendResult \in [Batches -> {"none", "Ok", "Err"}]
    /\ received \in [Batches -> {"none", "Delivered", "Errored", "Rejected"}]
    /\ outcome \in [Batches -> {"none", "completed", "errored", "rejected", "send_failed"}]

----------------------------------------------------------------------------
(* Properties *)

\* The number of log events among the first n rows of rs, as decoded.
RECURSIVE LogsIn(_, _)
LogsIn(rs, n) ==
    IF n = 0 THEN 0
    ELSE LogsIn(rs, n - 1)
         + Cardinality({i \in DOMAIN DeserializerParse(rs[n]).events :
                          DeserializerParse(rs[n]).events[i] = "Log"})

\* rs holds only rows that decode to one log event and rows that fail to decode.
OnlyWellFormedOrMalformed(rs) ==
    \A i \in DOMAIN rs : WellFormed(rs[i]) \/ ~DeserializerParse(rs[i]).ok

NumWellFormed(rs) == Cardinality({i \in DOMAIN rs : WellFormed(rs[i])})
NumMalformed(rs) == Cardinality({i \in DOMAIN rs : ~DeserializerParse(rs[i]).ok})

\* C1: the success_handler of every BlobPack is invoked at most once, whatever
\* the acknowledgement setting, the sink and the delivery status.
C1_AtMostOnce == \A b \in Batches : calls[b] <= 1

\* Two BlobPacks in a row had their handler invoked.
C1_Witness == calls[1] = 1 /\ calls[2] = 1

\* C2: with acknowledgements enabled, once the handler of the BlobPack in
\* flight has been invoked, its row stream is exhausted, the send returned Ok,
\* every event yielded was sent and resolved, and the status is Delivered.
C2_CallbackOnlyAfterDelivery ==
    (acknowledge /\ lpc = "processing" /\ calls[cur] > 0) =>
        /\ pos = Len(rows) /\ items = <<>>
        /\ sendResult[cur] = "Ok"
        /\ sent = yielded /\ yielded = LogsIn(rows, Len(rows))
        /\ inflight = 0 /\ ~handle
        /\ nstatus = "Delivered" /\ received[cur] = "Delivered"

\* The handler is running for a BlobPack whose events had to be resolved.
C2_Witness == acknowledge /\ ppc = "handler" /\ sent = 2 /\ Len(rows) = 2

\* C3: with acknowledgements enabled, a BlobPack whose send succeeded and
\* whose receiver resolved to Delivered had its handler invoked exactly once.
C3_DeliveredCalledOnce ==
    \A b \in Batches :
        (acknowledge /\ sendResult[b] = "Ok" /\ received[b] = "Delivered")
            => calls[b] = 1

\* A Delivered BlobPack with events has run to its end.
C3_Witness ==
    /\ acknowledge /\ ppc = "done" /\ sent > 0
    /\ received[cur] = "Delivered" /\ outcome[cur] = "completed"

\* C4: with acknowledgements enabled, a BlobPack whose receiver resolved to
\* Errored or Rejected never has its handler invoked, then or later, and the
\* match treats Rejected as it treats Errored.
C4_ErroredRejectedNeverCalled ==
    /\ \A b \in Batches :
          (acknowledge /\ received[b] \in {"Errored", "Rejected"}) => calls[b] = 0
    /\ HandlerCalls(TRUE, "Rejected") = HandlerCalls(TRUE, "Errored")

\* An Errored BlobPack was followed by a Rejected one that has run to its end.
C4_Witness ==
    /\ acknowledge /\ received[1] = "Errored" /\ received[2] = "Rejected"
    /\ outcome[2] = "rejected" /\ ppc = "done"

\* C5: with acknowledgements disabled, the handler of a BlobPack is invoked
\* exactly once in the very step in which its send returns Ok; no status is
\* awaited or received.
C5_NoAckCalledAtOnce ==
    ~acknowledge =>
        /\ ppc # "await"
        /\ ~receiver
        /\ \A b \in Batches :
              /\ sendResult[b] = "Ok" => calls[b] = 1
              /\ received[b] = "none"

\* The handler runs while the downstream still holds events of the BlobPack.
C5_Witness == ~acknowledge /\ ppc = "handler" /\ inflight = 2

\* C6: a BlobPack whose send failed never has its handler invoked and never
\* had a status awaited, and the step after the failure takes the loop back
\* to its select!, not to its end.
C6_SendFailureSkipsAndContinues ==
    /\ [](\A b \in Batches :
            sendResult[b] = "Err" =>
                /\ calls[b] = 0
                /\ received[b] = "none"
                /\ outcome[b] = "send_failed"
                /\ (b = cur => ppc \in {"done", "idle"}))
    /\ [][(lpc = "processing" /\ ppc = "done" /\ sendResult[cur] = "Err" /\ ppc' # ppc)
            => (lpc' = "select" /\ ret' = "none")]_vars

\* After a failed send the loop pulled the next BlobPack.
C6_Witness ==
    /\ sendResult[1] = "Err" /\ cur = 2 /\ lpc = "processing" /\ ppc = "poll"

\* C7: for a BlobPack of N rows that decode to one log event each and M rows
\* that fail to decode, in any order, the events yielded so far are the
\* well-formed rows pulled so far; once the send has returned Ok all N + M
\* rows were pulled and exactly N events were yielded and sent; and with
\* acknowledgements enabled and Delivered received the handler ran once.
C7_MalformedRowsSkipped ==
    (lpc = "processing" /\ OnlyWellFormedOrMalformed(rows)) =>
        /\ yielded + Len(items) = NumWellFormed(SubSeq(rows, 1, pos))
        /\ sendResult[cur] = "Ok" =>
              /\ pos = NumWellFormed(rows) + NumMalformed(rows)
              /\ yielded = NumWellFormed(rows)
              /\ sent = NumWellFormed(rows)
        /\ (acknowledge /\ received[cur] = "Delivered") => calls[cur] = 1

\* A BlobPack of a malformed row followed by a well-formed one was Delivered
\* and completed.
C7_Witness ==
    /\ acknowledge /\ rows = <<"malformed", "log">> /\ yielded = 1
    /\ received[cur] = "Delivered" /\ outcome[cur] = "completed"

\* C8 as stated: once shutdown has fired and the loop is at its select!, no
\* further BlobPack is pulled, even one that is already available.
C8_NoPullAfterShutdown ==
    [][(lpc = "select" /\ shutdown) => cur' = cur]_vars

\* C8, amended: once shutdown has fired and the loop is at its select!, the
\* shutdown branch is ready, so the loop can end without pulling; it pulls a
\* further BlobPack only if one is already available then, and with none
\* available its only step is to end.
C8_ShutdownBranchReady ==
    /\ [](lpc = "select" /\ shutdown => ENABLED SelectShutdown)
    /\ [][(lpc = "select" /\ shutdown /\ ~avail)
            => (cur' = cur /\ lpc' \in {"select", "terminated"})]_vars
    /\ [][(lpc = "select" /\ shutdown /\ cur' # cur) => avail]_vars

\* Shutdown fired with no BlobPack in flight and the loop ended on it without
\* pulling the second BlobPack, the upstream still being open.
C8_Witness ==
    /\ firedIn = 0 /\ lpc = "terminated" /\ ~ended /\ cur = 1 /\ ret = "Ok"

\* C9: a BlobPack that has been pulled runs to a terminal outcome before the
\* loop looks at shutdown again: the loop leaves "processing" only for its
\* select! and only with the outcome set, a send that returned Ok pulled every
\* row and sent every log event, a received status had every event resolved,
\* a completed BlobPack had its handler invoked, and the loop ends only with
\* the last BlobPack's outcome set.
C9_InFlightRunsToEnd ==
    /\ [][lpc = "processing" =>
            \/ lpc' = "processing"
            \/ /\ lpc' = "select"
               /\ outcome[cur] \in {"completed", "errored", "rejected", "send_failed"}]_vars
    /\ []((lpc = "processing" /\ sendResult[cur] = "Ok") =>
            /\ pos = Len(rows) /\ items = <<>>
            /\ yielded = LogsIn(rows, Len(rows)) /\ sent = yielded)
    /\ []((lpc = "processing" /\ received[cur] # "none")
            => (inflight = 0 /\ sendResult[cur] = "Ok"))
    /\ []((cur > 0 /\ outcome[cur] = "completed") => calls[cur] = 1)
    /\ []((cur > 0 /\ lpc = "terminated") => outcome[cur] # "none")

\* Shutdown fired before the first row of a two-row BlobPack was pulled; both
\* rows were sent, Delivered was received, and the handler ran.
C9_Witness ==
    /\ acknowledge /\ firedIn = 1 /\ firedPos = 0 /\ cur = 1
    /\ rows = <<"log", "log">> /\ sent = 2
    /\ received[1] = "Delivered" /\ outcome[1] = "completed"
    /\ ppc = "done"

\* C10: with acknowledgements enabled, an empty BlobPack sends nothing, its
\* receiver is ready as soon as it is awaited and resolves to Delivered, and
\* its handler is invoked exactly once.
C10_EmptyBatchDelivered ==
    (acknowledge /\ lpc = "processing" /\ rows = <<>>) =>
        /\ yielded = 0 /\ sent = 0 /\ inflight = 0
        /\ ppc \notin {"yielded"}
        /\ ppc = "await" => (~handle /\ ReceiverReady /\ nstatus = "Delivered"
                              /\ ENABLED AckResolve)
        /\ ppc \in {"handler", "done"} =>
              /\ sendResult[cur] = "Ok"
              /\ received[cur] = "Delivered"
              /\ calls[cur] = 1
        /\ ppc = "done" => outcome[cur] = "completed"

\* An empty BlobPack has completed although the sink is closed.
C10_Witness ==
    /\ acknowledge /\ cur > 0 /\ rows = <<>> /\ sinkClosed
    /\ ppc = "done" /\ outcome[cur] = "completed" /\ calls[cur] = 1

\* The decoded events of row r of rs, as the decoder gives them.
EventsOf(rs, r) == DeserializerParse(rs[r]).events

\* The <<row, position>> of the log events of row r of rs, in order.
LogIdsOfRow(rs, r) ==
    LET ids == [i \in 1..Len(EventsOf(rs, r)) |-> <<r, i>>]
        isLog(id) == EventsOf(rs, r)[id[2]] = "Log"
    IN SelectSeq(ids, isLog)

\* The <<row, position>> of the log events of the first n rows of rs, in order.
RECURSIVE LogIds(_, _)
LogIds(rs, n) == IF n = 0 THEN <<>> ELSE LogIds(rs, n - 1) \o LogIdsOfRow(rs, n)

\* The number of events other than logs among the first n rows of rs.
RECURSIVE NonLogsIn(_, _)
NonLogsIn(rs, n) ==
    IF n = 0 THEN 0
    ELSE NonLogsIn(rs, n - 1)
         + Cardinality({i \in DOMAIN EventsOf(rs, n) : EventsOf(rs, n)[i] # "Log"})

\* Source order on <<row, position>>.
Before(a, b) == a[1] < b[1] \/ (a[1] = b[1] /\ a[2] < b[2])

InFlight == lpc = "processing"

\* C11: the loop ends only from its select!, with no BlobPack in flight, on
\* the upstream's end or on shutdown, and run_streaming returns Ok whatever
\* the BlobPacks' outcomes were.
C11_LoopEndsOnlyOnEndOrShutdown ==
    /\ [](ret # "Err")
    /\ [](lpc = "terminated" => (ret = "Ok" /\ (shutdown \/ (ended /\ ~avail))))
    /\ [](lpc # "terminated" => ret = "none")
    /\ [][(lpc # "terminated" /\ lpc' = "terminated")
            => (lpc = "select" /\ ppc = "idle" /\ (shutdown \/ ended))]_vars

\* The loop ended with Ok after an Errored BlobPack and one whose send failed.
C11_Witness ==
    /\ acknowledge /\ outcome[1] = "errored" /\ outcome[2] = "send_failed"
    /\ lpc = "terminated" /\ ret = "Ok"

\* C12: the events the sink takes keep source order: within a BlobPack they
\* are in increasing (row, position) order and, once the send has returned
\* Ok, are exactly the log events of its rows in order; an event is taken only
\* for the BlobPack in flight, and the next BlobPack is pulled, in upstream
\* order, only with no event of the previous one left to take.
C12_ForwardedInSourceOrder ==
    /\ [](\A i, j \in DOMAIN fwd : i < j => Before(fwd[i], fwd[j]))
    /\ []((InFlight /\ sendResult[cur] = "Ok") => fwd = LogIds(rows, Len(rows)))
    /\ [][fwd' # fwd =>
            \/ fwd' = <<>>
            \/ /\ InFlight /\ cur' = cur
               /\ fwd' = Append(fwd, pending) /\ pending # <<>>]_vars
    /\ [][cur' # cur => (cur' = cur + 1 /\ ppc = "idle" /\ pending = <<>> /\ fwd = <<>>)]_vars

\* The second BlobPack had the three log events of its two rows taken in order.
C12_Witness ==
    /\ cur = 2 /\ sendResult[1] = "Ok" /\ sendResult[2] = "Ok"
    /\ rows = <<"log_metric_log", "log">>
    /\ fwd = << <<1, 1>>, <<1, 3>>, <<2, 1>> >>

\* C13 as stated: whenever the generator's handle to the notifier is released,
\* every row of the BlobPack has been pulled and visited, on every path.
C13_ReleasedOnlyWhenDrained ==
    (acknowledge /\ InFlight /\ ~handle) => (pos = Len(rows) /\ items = <<>>)

\* C13, amended: on every path on which the send has not failed, the handle is
\* released only with every row pulled and visited; on the send-failure path
\* the handle is released together with the receiver when process_blob_pack
\* returns, whatever is left of the row stream.
C13_ReleasedWhenDrainedOrAbandoned ==
    /\ (acknowledge /\ InFlight /\ ~handle /\ sendResult[cur] # "Err")
          => (pos = Len(rows) /\ items = <<>> /\ pending = <<>>)
    /\ (InFlight /\ sendResult[cur] = "Err") => (~handle /\ ~receiver)
    /\ (acknowledge /\ InFlight /\ ppc \in {"poll", "yielded"}) => handle

\* The handle is released and the receiver awaited after two rows were drained.
C13_Witness ==
    /\ acknowledge /\ ppc = "await" /\ ~handle /\ pos = 2 /\ inflight = 2

\* C14: under fairness a BlobPack in flight ends and the loop is back at its
\* select!; its outcome and its received status, once set, never change; with
\* acknowledgements enabled an outcome other than a failed send comes with
\* exactly one received status, and with them disabled none is awaited.
C14_BatchTerminates ==
    /\ InFlight ~> (lpc = "select" /\ ppc = "idle")
    /\ [][\A b \in Batches :
            /\ outcome[b] # "none" => outcome'[b] = outcome[b]
            /\ received[b] # "none" => received'[b] = received[b]]_vars
    /\ [](\A b \in Batches :
            /\ outcome[b] \in {"none", "completed", "errored", "rejected", "send_failed"}
            /\ (acknowledge /\ outcome[b] \in {"completed", "errored", "rejected"})
                  => received[b] \in {"Delivered", "Errored", "Rejected"}
            /\ outcome[b] = "send_failed" => received[b] = "none"
            /\ ~acknowledge => received[b] = "none")
    /\ [](~acknowledge => ppc # "await")

\* A Rejected BlobPack has ended and the loop is back at its select!.
C14_Witness ==
    /\ cur = 1 /\ outcome[1] = "rejected" /\ lpc = "select" /\ ppc = "idle"

C16_Inv ==
    InFlight =>
        /\ \A i \in DOMAIN fwd : EventsOf(rows, fwd[i][1])[fwd[i][2]] = "Log"
        /\ pending # <<>> => EventsOf(rows, pending[1])[pending[2]] = "Log"
        /\ diag.events = yielded
        /\ diag.invalid + Cardinality({i \in DOMAIN items : EventsOf(rows, pos)[items[i]] # "Log"})
              = NonLogsIn(rows, pos)
        /\ sendResult[cur] = "Ok" =>
              /\ pos = Len(rows)
              /\ diag.invalid = NonLogsIn(rows, Len(rows))
              /\ yielded = LogsIn(rows, Len(rows))
        /\ (acknowledge /\ sent = 0) => nstatus = "Delivered"

\* C16: a decoded event that is not a log is never yielded or sent, is
\* reported by its own event and not by EventsReceived, the rest of the
\* BlobPack is still processed, and the drop leaves the notifier's status as
\* it was, Delivered as long as nothing was sent.
C16_NonLogDropped ==
    /\ []C16_Inv
    /\ [][diag'.invalid = diag.invalid + 1 =>
            /\ nstatus' = nstatus /\ fwd' = fwd /\ pending' = pending
            /\ yielded' = yielded /\ diag'.events = diag.events
            /\ ppc' = "poll" /\ items' = Tail(items) /\ pos' = pos]_vars

\* A BlobPack of a metric row and a log-metric-log row was Delivered with two
\* events dropped and two sent.
C16_Witness ==
    /\ acknowledge /\ rows = <<"metric", "log_metric_log">> /\ ppc = "done"
    /\ diag.invalid = 2 /\ diag.events = 2 /\ sent = 2
    /\ received[cur] = "Delivered" /\ outcome[cur] = "completed"

\* C17: on a send failure the count of StreamClosedError is the number of
\* events of the BlobPack that were not sent.
C17_ClosedCountIsUnsent ==
    (InFlight /\ sendResult[cur] = "Err")
        => diag.closed = LogsIn(rows, Len(rows)) - sent

\* C18: the generator is not polled while an event it yielded waits for the
\* sink: at most one yielded event is unsent, no row is pulled and no event
\* visited meanwhile, and every log event of the rows before the current one
\* has been taken by the sink.
C18_ThrottledBySink ==
    InFlight =>
        /\ yielded - sent <= 1
        /\ ppc = "yielded" =>
              /\ yielded = sent + 1 /\ pending # <<>>
              /\ ~ENABLED PullRow /\ ~ENABLED VisitEvent /\ ~ENABLED RowsEnd
        /\ (ppc = "poll" /\ sendResult[cur] = "none") => yielded = sent
        /\ (pos > 0 /\ sendResult[cur] # "Err") => sent >= LogsIn(rows, pos - 1)
        /\ pos > 0 => yielded >= LogsIn(rows, pos - 1)

\* An event of the first of two rows waits for the sink; the second row has
\* not been pulled.
C18_Witness ==
    /\ ppc = "yielded" /\ Len(rows) = 2 /\ pos = 1 /\ sent = 0 /\ ~sinkClosed

\* C19: once the send of a BlobPack has failed, process_blob_pack is at its
\* return with the handle and the receiver released, no further row is pulled
\* and no further event visited, yielded or sent, and that BlobPack is never
\* taken up again.
C19_NothingAfterSendFailure ==
    /\ []((InFlight /\ sendResult[cur] = "Err") =>
            (ppc = "done" /\ ~handle /\ ~receiver /\ pending = <<>>))
    /\ [][(InFlight /\ sendResult[cur] = "Err") =>
            \/ UNCHANGED <<rows, pos, items, fwd, yielded, sent, cur>>
            \/ (ppc' = "idle" /\ cur' = cur)]_vars
    /\ [][\A b \in Batches :
            sendResult[b] = "Err" =>
                (sendResult'[b] = "Err" /\ calls'[b] = 0 /\ received'[b] = "none")]_vars
    /\ [][cur' >= cur]_vars

\* A send failed with a row still unread; process_blob_pack is at its return.
C19_Witness ==
    /\ InFlight /\ acknowledge /\ sendResult[cur] = "Err" /\ ppc = "done"
    /\ pos = 1 /\ Len(rows) = 2 /\ sent = 0

\* C20: a BlobPack is being processed only while the loop awaits it; the next
\* one is pulled only when the previous one has its outcome; a handler is
\* invoked only for the BlobPack in flight, so handlers run in upstream order
\* and none for a BlobPack not yet pulled.
C20_OneBatchAtATime ==
    /\ [](ppc # "idle" => InFlight)
    /\ [](InFlight => ~ENABLED SelectBatch)
    /\ [](\A b \in Batches :
            /\ b < cur => outcome[b] # "none"
            /\ b > cur => (calls[b] = 0 /\ outcome[b] = "none" /\ sendResult[b] = "none"))
    /\ [][cur' # cur =>
            /\ cur' = cur + 1 /\ ppc = "idle"
            /\ cur > 0 => outcome[cur] # "none"]_vars
    /\ [][\A b \in Batches : calls'[b] # calls[b] => (b = cur /\ InFlight /\ cur' = cur)]_vars

\* The handler of the second BlobPack runs after the first one's completed.
C20_Witness ==
    /\ cur = 2 /\ calls[1] = 1 /\ outcome[1] = "completed"
    /\ ppc = "handler" /\ calls[2] = 1 /\ outcome[2] = "none"

====
